---- MODULE Spec2Model ----
(***************************************************************************)
(* Weather-API: cache-aside fetch orchestration with an advisory Redis     *)
(* lock (src/app/main.py, src/app/services/cache.py,                      *)
(* src/app/services/openweather.py).                                      *)
(*                                                                         *)
(* Every Redis command and every upstream HTTP call is one atomic step of  *)
(* the request that issues it; requests interleave freely between steps.   *)
(* Key expiry is a step of the store that may happen at any moment after   *)
(* the key was set: a request may take arbitrarily long between two of its *)
(* steps, so every ordering of expiry and request steps is possible.       *)
(* int(time.time()) is an input of the step that reads it.                 *)
(***************************************************************************)
EXTENDS Integers, Sequences, FiniteSets, TLC

\* ---- bounds of the model: the number of requests that arrive in a run, without
\* and with process crashes ----
MaxRequests == 2
MaxCrashRequests == 3
MaxCityRequests == 2
MaxCorruptRequests == 2
MaxRoundRequests == 2
MaxRetryRequests == 3
MaxEntryRequests == 3
MaxRaceRequests == 3

\* ---- program constants ----
cache_ttl_current_seconds == 120
cache_ttl_forecast_seconds == 900
cache_coord_round_decimals == 2
LOCK_TTL_MS == 10000
\* coordinates are decimal numbers with InputDecimals digits, kept as integers
InputDecimals == 3

None == "None"
\* the workers that serve requests side by side; a worker that has returned a
\* response takes the next request
Reqs == {1, 2}
\* the readings int(time.time()) may give (clocks of different hosts are not ordered)
Clock == {1700000000, 1700000030}

VARIABLES
    store,            \* the Redis keyspace: key -> Absent | entry
    pc,               \* per worker: position of its request in the handler
    req,              \* per worker: the request (route, units, city), then the arguments of _fetch_*
    have_lock,        \* per worker: local have_lock ("unbound" until assigned)
    data,             \* per worker: local data, the upstream payload (None until fetched)
    resp,             \* per worker: the response or HTTP error on its way out
    seen,             \* per worker: what the store held under the key at cache.get_json
    cached,           \* per worker: the CacheResult its cache.get_json returned
    fetched,          \* per worker: how the upstream call ended
    calls,            \* per worker: number of get, acquire, upstream, set, release calls
    returned,         \* what the last step returned to a caller (NoReturn if nothing)
    started,          \* number of requests that have arrived
    raced,            \* history, per worker: since its request missed the cache, another
                      \* request that missed on the same key has called upstream
    orphaned,         \* history: lock keys whose entry was left behind by a crashed request
    expiredWhileHeld, \* history: a lock entry expired between its acquire and its release
    robbed            \* history, per worker: the lock entry its request created was deleted
                      \* by the release_lock of another request while it was still at work

vars == <<store, pc, req, have_lock, data, resp, seen, cached, fetched, calls, returned,
          started, raced, orphaned, expiredWhileHeld, robbed>>

\* ---- inputs ----
\* payloads the upstream provider may answer with; "malformed" is the JSON body
\* {"sys": "GB"}, on which payload.get("sys", {}).get("country") raises
Payloads == {"p1", "malformed"}

RequestInputs ==
    { [route |-> "/v1/weather/current",  units |-> "metric", lat |-> 51507, lon |-> -128],
      [route |-> "/v1/weather/forecast", units |-> "metric", lat |-> 51507, lon |-> -128],
      [route |-> "/weather",             units |-> "metric", city |-> "London"] }

\* a request, and after it requests that differ from it in exactly one component
\* of the key each: the resource kind, the units, coordinates that round
\* differently
IsolationSeq ==
    << [route |-> "/v1/weather/current",  units |-> "metric",   lat |-> 51507, lon |-> -128],
       [route |-> "/v1/weather/forecast", units |-> "metric",   lat |-> 51507, lon |-> -128],
       [route |-> "/v1/weather/current",  units |-> "imperial", lat |-> 51507, lon |-> -128],
       [route |-> "/v1/weather/current",  units |-> "metric",   lat |-> 48857, lon |-> 2352] >>

IsolationInputs == { IsolationSeq[i] : i \in 1..Len(IsolationSeq) }

\* coordinates around the boundaries of rounding: either side of zero, either side
\* of a halfway point (51.505, -0.125), the halfway points, and points that round
\* alike
RoundInputs ==
    { [route |-> "/v1/weather/current", units |-> "metric", lat |-> la, lon |-> lo] :
        la \in {-4, 4, 125, 51504, 51505, 51506, 51514},
        lo \in {-132, -128, -125, -4, 4} }

\* requests on the two city-name routes
CityInputs ==
    { [route |-> "/weather",  units |-> "metric", city |-> "London"],
      [route |-> "/forecast", units |-> "metric", city |-> "London"] }

\* what the geocoding API may resolve a city to: loc.get("country", "")
GeoResults ==
    { [lat |-> 51507, lon |-> -128, country |-> c] : c \in {"GB", ""} }

RouteKind(route) ==
    IF route \in {"/v1/weather/current", "/weather"} THEN "current" ELSE "forecast"

CityRoute(route) == route \in {"/weather", "/forecast"}

\* ---- cache.py ----
RECURSIVE Pow10(_)
Pow10(n) == IF n <= 0 THEN 1 ELSE 10 * Pow10(n - 1)

Abs(x) == IF x < 0 THEN -x ELSE x

\* A float with at most InputDecimals decimal digits is kept as its sign and its
\* magnitude in units of 10^-InputDecimals (so -0.0 differs from 0.0); the result of
\* round(x, decimals) is kept in units of 10^-decimals.
\* float(text) of a query parameter: the number x / 10^InputDecimals
Float(x) == [neg |-> x < 0, mag |-> Abs(x)]

\* a float of `decimals` decimal digits, in units of 10^-InputDecimals
Widen(f, decimals) == [neg |-> f.neg, mag |-> f.mag * Pow10(InputDecimals - decimals)]

RECURSIVE Pow2(_)
Pow2(n) == IF n <= 0 THEN 1 ELSE 2 * Pow2(n - 1)

\* 2^e modulo m
RECURSIVE Pow2Mod(_, _)
Pow2Mod(e, m) == IF e <= 0 THEN 1 % m ELSE (2 * Pow2Mod(e - 1, m)) % m

\* the binary exponent of a / m, a > 0: the n with 2^n <= a / m < 2^(n+1)
RECURSIVE ExponentFrom(_, _, _)
ExponentFrom(a, m, n) ==
    IF a >= m
    THEN IF m * Pow2(n + 1) <= a THEN ExponentFrom(a, m, n + 1) ELSE n
    ELSE IF a * Pow2(-n) < m THEN ExponentFrom(a, m, n - 1) ELSE n

\* on which side of the decimal number a / m its double lies: 0 when a / m is a
\* double itself, 1 when the double (53 bits of a * 2^e / m, rounded) is greater,
\* -1 when it is smaller
BinaryError(a, m) ==
    LET e == 52 - ExponentFrom(a, m, IF a >= m THEN 0 ELSE -1)
        r == ((a % m) * Pow2Mod(e, m)) % m
    IN  IF r = 0 THEN 0 ELSE IF 2 * r > m THEN 1 ELSE -1

\* a faulty round: the digits after `decimals` are cut off
round_float_truncating(f, decimals) ==
    [neg |-> f.neg, mag |-> f.mag \div Pow10(InputDecimals - decimals)]

\* Python round(f, decimals) on a float, decimals <= InputDecimals: the multiple of
\* 10^-decimals nearest to the double; a double that lies exactly halfway goes to
\* the even multiple; the sign of f is kept, so a negative f that rounds to zero
\* gives -0.0.
round_float(f, decimals) ==
    LET m   == Pow10(InputDecimals - decimals)
        q   == f.mag \div m
        rem == f.mag % m
        b   == BinaryError(f.mag, Pow10(InputDecimals))
        mag == IF 2 * rem > m THEN q + 1
               ELSE IF 2 * rem < m THEN q
               ELSE IF b > 0 THEN q + 1
               ELSE IF b < 0 THEN q
               ELSE IF q % 2 = 0 THEN q ELSE q + 1
    IN  [neg |-> f.neg, mag |-> mag]

\* round on a number given with InputDecimals decimal digits
round(x, decimals) == round_float(Float(x), decimals)

\* a faulty rounded_coords: the two results change places
rounded_floats_swapped(lat, lon, decimals) ==
    <<round_float(lon, decimals), round_float(lat, decimals)>>

\* rounded_coords on two floats
rounded_floats(lat, lon, decimals) ==
    <<round_float(lat, decimals), round_float(lon, decimals)>>

\* rounded_coords on two numbers given with InputDecimals decimal digits
rounded_coords(lat, lon, decimals) == rounded_floats(Float(lat), Float(lon), decimals)

\* Optional[int]: the empty set is None, {n} is n
NoInt == {}
Some(n) == {n}

\* an absent key of the store
Absent == [type |-> "absent"]

Miss == [value |-> None, hit |-> FALSE, age_seconds |-> NoInt, stale |-> FALSE]

Max(a, b) == IF a >= b THEN a ELSE b

\* values under a cache key that set_json did not write:
\*   text                     no JSON at all, or JSON that is no object ("[1]", "3")
\*   object/no_payload        {"stored_at": 1700000000}
\*   object/no_stored_at      {"payload": {...}}
\*   object/bad_stored_at     {"stored_at": "x", "payload": {...}}
\*   object/payload_not_dict  {"stored_at": 1700000000, "payload": [1]}
ForeignValues ==
    { [type |-> "text"] }
      \cup { [type |-> "object", shape |-> sh, stored_at |-> 1700000000,
               payload |-> IF sh = "payload_not_dict" THEN "not_a_dict" ELSE "p1"] :
             sh \in {"no_payload", "no_stored_at", "bad_stored_at", "payload_not_dict"} }

\* whether json.loads(raw), obj.get(...) and int(...) succeed
Decodes(raw) ==
    \/ raw.type = "json"
    \/ raw.type = "object" /\ raw.shape # "bad_stored_at"

\* int(obj.get("stored_at", 0))
StoredAt(raw) ==
    IF raw.type = "object" /\ raw.shape = "no_stored_at" THEN 0 ELSE raw.stored_at

\* obj.get("payload")
PayloadOf(raw) ==
    IF raw.type = "object" /\ raw.shape = "no_payload" THEN None ELSE raw.payload

\* a faulty get_json: the age is the plain difference of the two clock readings
get_json_without_max(raw, t) ==
    IF raw = Absent THEN Miss
    ELSE IF ~Decodes(raw) THEN Miss
    ELSE [value |-> PayloadOf(raw), hit |-> TRUE,
          age_seconds |-> Some(t - StoredAt(raw)), stale |-> FALSE]

\* get_json after client.get returned raw; t is int(time.time())
get_json(raw, t) ==
    IF raw = Absent THEN Miss
    ELSE IF ~Decodes(raw) THEN Miss
    ELSE [value |-> PayloadOf(raw), hit |-> TRUE,
          age_seconds |-> Some(Max(0, t - StoredAt(raw))), stale |-> FALSE]

\* a faulty set_json: every record gets the TTL of current conditions, whatever
\* the caller passes
set_json_current_ttl(s, key, payload, ttl_seconds, t) ==
    [s EXCEPT ![key] = [type |-> "json", stored_at |-> t, payload |-> payload,
                        ttl |-> cache_ttl_current_seconds]]

\* a faulty set_json: a record that is already there is kept (SET NX in place of
\* SETEX)
set_json_keeping_existing(s, key, payload, ttl_seconds, t) ==
    IF s[key] # Absent THEN s
    ELSE [s EXCEPT ![key] = [type |-> "json", stored_at |-> t, payload |-> payload,
                             ttl |-> ttl_seconds]]

\* set_json: SETEX key ttl {"stored_at": t, "payload": payload}, t is int(time.time())
set_json(s, key, payload, ttl_seconds, t) ==
    [s EXCEPT ![key] = [type |-> "json", stored_at |-> t, payload |-> payload,
                        ttl |-> ttl_seconds]]

\* a faulty acquire_lock: SET without NX succeeds whether or not the key exists
acquire_lock_result_without_nx(s, lock_key) == TRUE

\* a faulty acquire_lock: SET NX without PX creates an entry that never expires
acquire_lock_without_px(s, lock_key, ttl_ms, w) ==
    IF s[lock_key] = Absent
    THEN [s EXCEPT ![lock_key] = [type |-> "lock", px |-> 0, by |-> w]]
    ELSE s

\* a faulty acquire_lock: SET PX without NX replaces an entry that is there
acquire_lock_overwriting(s, lock_key, ttl_ms, w) ==
    [s EXCEPT ![lock_key] = [type |-> "lock", px |-> ttl_ms, by |-> w]]

\* acquire_lock: SET lock_key "1" NX PX ttl_ms, one atomic command; w, the worker
\* whose request created the entry, is kept for the properties only
acquire_lock_result(s, lock_key) == s[lock_key] = Absent

acquire_lock(s, lock_key, ttl_ms, w) ==
    IF s[lock_key] = Absent
    THEN [s EXCEPT ![lock_key] = [type |-> "lock", px |-> ttl_ms, by |-> w]]
    ELSE s

\* a faulty release_lock: DEL of the cache key the lock key was built from
release_lock_of_cache_key(s, lock_key) == [s EXCEPT ![Tail(lock_key)] = Absent]

\* release_lock: DEL lock_key, whoever created the entry
release_lock(s, lock_key) == [s EXCEPT ![lock_key] = Absent]

\* ---- main.py ----
\* a faulty key: units left out of the f-string (every key reads as metric)
CacheKey_without_units(kind, units, lat, lon) ==
    LET rc == rounded_coords(lat, lon, cache_coord_round_decimals)
    IN  <<kind, "metric", rc[1], rc[2]>>

\* f"{kind}:{units}:{rlat}:{rlon}"
CacheKey(kind, units, lat, lon) ==
    LET rc == rounded_coords(lat, lon, cache_coord_round_decimals)
    IN  <<kind, units, rc[1], rc[2]>>

\* the key of a request whose lat and lon are the floats flat and flon
FloatKey(kind, units, flat, flon) ==
    LET rc == rounded_floats(flat, flon, cache_coord_round_decimals)
    IN  <<kind, units, rc[1], rc[2]>>

\* f"lock:{key}"
LockKey(key) == <<"lock">> \o key

\* the digits of n, at least `width` of them (zeros in front)
RECURSIVE Digits(_, _)
Digits(n, width) ==
    IF n < 10 /\ width <= 1 THEN ToString(n)
    ELSE Digits(n \div 10, width - 1) \o ToString(n % 10)

\* str(f) of a float with `decimals` decimal digits: shortest text that reads back
\* as f, with at least one digit after the point and the sign of f, also of zero
RECURSIVE repr(_, _)
repr(f, decimals) ==
    IF decimals > 1 /\ f.mag % 10 = 0
    THEN repr([neg |-> f.neg, mag |-> f.mag \div 10], decimals - 1)
    ELSE (IF f.neg THEN "-" ELSE "")
           \o (IF decimals <= 0 THEN ToString(f.mag) \o ".0"
               ELSE ToString(f.mag \div Pow10(decimals)) \o "."
                      \o Digits(f.mag % Pow10(decimals), decimals))

\* the text of a key of the store, as the f-strings build it
RECURSIVE KeyText(_)
KeyText(key) ==
    IF key[1] = "lock" THEN "lock:" \o KeyText(Tail(key))
    ELSE key[1] \o ":" \o key[2] \o ":" \o repr(key[3], cache_coord_round_decimals)
           \o ":" \o repr(key[4], cache_coord_round_decimals)

Ttl(kind) == IF kind = "current" THEN cache_ttl_current_seconds
             ELSE cache_ttl_forecast_seconds

\* whether CurrentWeatherResponse / ForecastResponse can be built from the payload.
\* _fetch_current evaluates `country or payload.get("sys", {}).get("country")`,
\* which raises on {"sys": "GB"} unless country is set (the geocoder gave one);
\* _fetch_forecast reads only payload.get("city", {}), which {"sys": "GB"} lacks.
\* A payload that is no JSON object ("not_a_dict") has no .get and is no dict for
\* the response model.
Renders(payload, kind, country) ==
    \/ payload = "p1"
    \/ payload = "malformed" /\ (kind = "forecast" \/ country \notin {None, ""})

Coordinates ==
    { <<i.lat, i.lon>> : i \in {j \in RequestInputs \cup IsolationInputs : ~CityRoute(j.route)} }
       \cup { <<g.lat, g.lon>> : g \in GeoResults }

CacheKeys == { CacheKey(k, u, c[1], c[2]) :
                 k \in {"current", "forecast"},
                 u \in {i.units : i \in RequestInputs \cup IsolationInputs},
                 c \in Coordinates }

LockKeys == { LockKey(k) : k \in CacheKeys }

StoreKeys == CacheKeys \cup LockKeys

\* the arguments of _fetch_current / _fetch_forecast; country is None on the
\* routes that take coordinates, and the geocoder's country ("" when it gave none)
\* on the city routes. name, which only labels the response, is left out.
FetchArgs(kind, units, lat, lon, country) ==
    [kind |-> kind, units |-> units, lat |-> lat, lon |-> lon, country |-> country]

KeyOf(r) == CacheKey(req[r].kind, req[r].units, req[r].lat, req[r].lon)

NoCalls == [get |-> 0, acquire |-> 0, upstream |-> 0, set |-> 0, release |-> 0]

Response(status, origin, hit, age, payload) ==
    [status |-> status, origin |-> origin, hit |-> hit, age_seconds |-> age,
     stale |-> FALSE, payload |-> payload]

\* an exception that no handler catches: the framework answers 500
Unclassified == Response(500, "unclassified", FALSE, NoInt, None)

NoResponse == Response(0, "none", FALSE, NoInt, None)

NoRequest == [route |-> "none"]


\* nothing was returned by the last step
NoReturn == [worker |-> 0]

Init ==
    /\ store = [k \in StoreKeys |-> Absent]
    /\ pc = [r \in Reqs |-> "idle"]
    /\ req = [r \in Reqs |-> NoRequest]
    /\ have_lock = [r \in Reqs |-> "unbound"]
    /\ data = [r \in Reqs |-> None]
    /\ resp = [r \in Reqs |-> NoResponse]
    /\ seen = [r \in Reqs |-> Absent]
    /\ cached = [r \in Reqs |-> Miss]
    /\ fetched = [r \in Reqs |-> "none"]
    /\ calls = [r \in Reqs |-> NoCalls]
    /\ returned = NoReturn
    /\ started = 0
    /\ raced = [r \in Reqs |-> FALSE]
    /\ orphaned = {}
    /\ expiredWhileHeld = FALSE
    /\ robbed = [r \in Reqs |-> FALSE]

\* worker r goes on with its request: the step returns nothing to the caller
Continue(r, next) ==
    /\ pc' = [pc EXCEPT ![r] = next]
    /\ returned' = NoReturn

\* the locals of worker r's request are gone and the worker is free again
Reset(r) ==
    /\ pc' = [pc EXCEPT ![r] = "idle"]
    /\ req' = [req EXCEPT ![r] = NoRequest]
    /\ have_lock' = [have_lock EXCEPT ![r] = "unbound"]
    /\ data' = [data EXCEPT ![r] = None]
    /\ resp' = [resp EXCEPT ![r] = NoResponse]
    /\ seen' = [seen EXCEPT ![r] = Absent]
    /\ cached' = [cached EXCEPT ![r] = Miss]
    /\ fetched' = [fetched EXCEPT ![r] = "none"]
    /\ calls' = [calls EXCEPT ![r] = NoCalls]
    /\ raced' = [raced EXCEPT ![r] = FALSE]

\* the handler of worker r ends: `response` goes to the caller (a response model or
\* an HTTP error). `c` are the calls the request made, `hl` its have_lock, `cached`
\* the result of its get_json (Miss if there was none), `entered` whether it got
\* as far as _fetch_current / _fetch_forecast, `release_raised` whether the DEL of
\* its release_lock raised (release_lock swallows the exception)
ReturnAfter(r, response, c, hl, cr, entered, release_raised) ==
    /\ returned' = [worker |-> r, response |-> response, calls |-> c,
                    entered |-> entered, release_raised |-> release_raised,
                    key |-> IF entered THEN KeyOf(r) ELSE <<>>,
                    have_lock |-> hl, cached |-> cr, fetched |-> fetched[r],
                    data |-> data[r], seen |-> seen[r], raced |-> raced[r]]
    /\ Reset(r)

\* the same, on a path on which no DEL of release_lock was swallowed
Return(r, response, c, hl, cr, entered) ==
    ReturnAfter(r, response, c, hl, cr, entered, FALSE)

\* a request, one of `inputs`, arrives and the lowest free worker takes it
StartWithin(r, max, inputs) ==
    /\ pc[r] = "idle"
    /\ \A q \in Reqs : q < r => pc[q] # "idle"
    /\ started < max
    /\ started' = started + 1
    /\ \E i \in inputs :
         /\ req' = [req EXCEPT ![r] =
                IF CityRoute(i.route) THEN i
                ELSE FetchArgs(RouteKind(i.route), i.units, i.lat, i.lon, None)]
         /\ Continue(r, IF CityRoute(i.route) THEN "geocode" ELSE "check_cache")
    /\ UNCHANGED <<store, have_lock, data, resp, seen, cached, fetched, calls, raced, orphaned,
                   expiredWhileHeld, robbed>>

Start(r) == StartWithin(r, MaxRequests, RequestInputs)

\* how ow.geocode_city(city) may fail: the resolver knows no such city (empty
\* result list, ValueError), answers with an HTTP error status (HTTPStatusError),
\* or cannot be reached in time (another exception)
GeoFailures == {"not_found", "http_error", "network_error"}

\* a faulty _geocode: no `except ValueError` clause, so `except Exception` takes it
geocode_status_without_400(failure) == 502

\* the status of the HTTPException the except clauses of _geocode raise
geocode_status(failure) == IF failure = "not_found" THEN 400 ELSE 502

\* _geocode: ow.geocode_city(city) resolves, or fails and an HTTPException leaves
\* the handler before _fetch_current / _fetch_forecast is called
geocode(r) ==
    /\ pc[r] = "geocode"
    /\ \/ \E g \in GeoResults :
            /\ req' = [req EXCEPT ![r] = FetchArgs(RouteKind(@.route), @.units, g.lat, g.lon,
                                                     g.country)]
            /\ Continue(r, "check_cache")
            /\ UNCHANGED <<have_lock, data, resp, seen, cached, fetched, calls, raced>>
       \/ \E f \in GeoFailures :
            Return(r, Response(geocode_status(f), f, FALSE, NoInt, None),
                   calls[r], have_lock[r], Miss, FALSE)
    /\ UNCHANGED <<store, started, orphaned, expiredWhileHeld, robbed>>

\* cached = cache.get_json(key) and the hit branch
fetch_check_cache(r) ==
    /\ pc[r] = "check_cache"
    /\ LET c == [calls[r] EXCEPT !.get = @ + 1] IN
       \/ \* client.get raises: nothing catches it
          Return(r, Unclassified, c, have_lock[r], Miss, TRUE)
       \/ \E t \in Clock :
            LET cr == get_json(store[KeyOf(r)], t) IN
            IF cr.hit /\ cr.value # None
            THEN Return(r, IF Renders(cr.value, req[r].kind, req[r].country)
                           THEN Response(200, "cached", TRUE, cr.age_seconds, cr.value)
                           ELSE Unclassified,
                        c, have_lock[r], cr, TRUE)
            ELSE /\ Continue(r, "acquire_lock")
                 /\ calls' = [calls EXCEPT ![r] = c]
                 /\ seen' = [seen EXCEPT ![r] = store[KeyOf(r)]]
                 /\ cached' = [cached EXCEPT ![r] = cr]
                 /\ UNCHANGED <<req, have_lock, data, resp, fetched, raced>>
    /\ UNCHANGED <<store, started, orphaned, expiredWhileHeld, robbed>>

\* a faulty handler: the HTTPException(503) of the busy branch is caught by
\* `except Exception` and leaves as 502
fetch_acquire_lock_reclassified(r) ==
    /\ pc[r] = "acquire_lock"
    /\ LET c  == [calls[r] EXCEPT !.acquire = @ + 1]
           lk == LockKey(KeyOf(r))
       IN
       \/ /\ Return(r, Unclassified, c, have_lock[r], cached[r], TRUE)
          /\ UNCHANGED store
       \/ /\ store' = acquire_lock(store, lk, LOCK_TTL_MS, r)
          /\ IF acquire_lock_result(store, lk)
             THEN /\ have_lock' = [have_lock EXCEPT ![r] = "True"]
                  /\ Continue(r, "upstream")
                  /\ calls' = [calls EXCEPT ![r] = c]
                  /\ UNCHANGED <<req, data, resp, seen, cached, fetched, raced>>
             ELSE Return(r, Response(502, "upstream_error", FALSE, NoInt, None),
                         c, "False", cached[r], TRUE)
    /\ UNCHANGED <<started, orphaned, expiredWhileHeld, robbed>>

\* a faulty handler: no `if not have_lock: raise`, the fetch goes ahead either way
fetch_acquire_lock_unchecked(r) ==
    /\ pc[r] = "acquire_lock"
    /\ LET c  == [calls[r] EXCEPT !.acquire = @ + 1]
           lk == LockKey(KeyOf(r))
       IN
       \/ /\ Return(r, Unclassified, c, have_lock[r], cached[r], TRUE)
          /\ UNCHANGED store
       \/ /\ store' = acquire_lock(store, lk, LOCK_TTL_MS, r)
          /\ have_lock' = [have_lock EXCEPT ![r] =
                IF acquire_lock_result(store, lk) THEN "True" ELSE "False"]
          /\ Continue(r, "upstream")
          /\ calls' = [calls EXCEPT ![r] = c]
          /\ UNCHANGED <<req, data, resp, seen, cached, fetched, raced>>
    /\ UNCHANGED <<started, orphaned, expiredWhileHeld, robbed>>

\* a faulty handler: the finally clause calls release_lock without testing
\* have_lock, so a request that gets 503 deletes the lock entry it found
fetch_acquire_lock_releasing_when_busy(r) ==
    /\ pc[r] = "acquire_lock"
    /\ LET c  == [calls[r] EXCEPT !.acquire = @ + 1]
           lk == LockKey(KeyOf(r))
       IN
       \/ /\ Return(r, Unclassified, c, have_lock[r], cached[r], TRUE)
          /\ UNCHANGED store
       \/ IF acquire_lock_result(store, lk)
          THEN /\ store' = acquire_lock(store, lk, LOCK_TTL_MS, r)
               /\ have_lock' = [have_lock EXCEPT ![r] = "True"]
               /\ Continue(r, "upstream")
               /\ calls' = [calls EXCEPT ![r] = c]
               /\ UNCHANGED <<req, data, resp, seen, cached, fetched, raced>>
          ELSE /\ store' = release_lock(store, lk)
               /\ Return(r, Response(503, "busy", FALSE, NoInt, None),
                         [c EXCEPT !.release = @ + 1], "False", cached[r], TRUE)
    /\ UNCHANGED <<started, orphaned, expiredWhileHeld, robbed>>

\* have_lock = cache.acquire_lock(lock_key, ttl_ms=10_000); if not have_lock: raise 503
fetch_acquire_lock(r) ==
    /\ pc[r] = "acquire_lock"
    /\ LET c  == [calls[r] EXCEPT !.acquire = @ + 1]
           lk == LockKey(KeyOf(r))
       IN
       \/ \* client.set raises before the try block: nothing catches it
          /\ Return(r, Unclassified, c, have_lock[r], cached[r], TRUE)
          /\ UNCHANGED store
       \/ /\ store' = acquire_lock(store, lk, LOCK_TTL_MS, r)
          /\ IF acquire_lock_result(store, lk)
             THEN /\ have_lock' = [have_lock EXCEPT ![r] = "True"]
                  /\ Continue(r, "upstream")
                  /\ calls' = [calls EXCEPT ![r] = c]
                  /\ UNCHANGED <<req, data, resp, seen, cached, fetched, raced>>
             ELSE Return(r, Response(503, "busy", FALSE, NoInt, None), c, "False", cached[r], TRUE)
    /\ UNCHANGED <<started, orphaned, expiredWhileHeld, robbed>>

\* whether q's request missed the cache on the key of r's request while the key
\* held no record, as r's did, and has not returned yet
MissedWith(q, r) ==
    /\ q # r
    /\ pc[q] \in {"acquire_lock", "upstream", "set_json", "release_lock"}
    /\ KeyOf(q) = KeyOf(r)
    /\ seen[q] = Absent /\ seen[r] = Absent

\* a faulty handler: a failed upstream call is tried again
fetch_upstream_retrying(r) ==
    /\ pc[r] = "upstream"
    /\ calls' = [calls EXCEPT ![r].upstream = @ + 1]
    /\ raced' = [q \in Reqs |-> raced[q] \/ MissedWith(q, r)]
    /\ \/ \E p \in Payloads :
            /\ data' = [data EXCEPT ![r] = p]
            /\ fetched' = [fetched EXCEPT ![r] = "ok"]
            /\ Continue(r, "set_json")
            /\ UNCHANGED resp
       \/ \E e \in {"http_error", "exception"} :
            /\ fetched' = [fetched EXCEPT ![r] = e]
            /\ resp' = [resp EXCEPT ![r] = Response(502, "upstream_error", FALSE, NoInt, None)]
            /\ Continue(r, IF calls[r].upstream = 0 THEN "upstream" ELSE "release_lock")
            /\ UNCHANGED data
    /\ UNCHANGED <<store, req, have_lock, seen, cached, started, orphaned, expiredWhileHeld, robbed>>

\* data = await ow.get_current(...) / ow.get_forecast(...): returns the JSON body,
\* or raises HTTPStatusError, or another exception (network error, timeout)
fetch_upstream(r) ==
    /\ pc[r] = "upstream"
    /\ calls' = [calls EXCEPT ![r].upstream = @ + 1]
    /\ raced' = [q \in Reqs |-> raced[q] \/ MissedWith(q, r)]
    /\ \/ \E p \in Payloads :
            /\ data' = [data EXCEPT ![r] = p]
            /\ fetched' = [fetched EXCEPT ![r] = "ok"]
            /\ Continue(r, "set_json")
            /\ UNCHANGED resp
       \/ \E e \in {"http_error", "exception"} :
            /\ fetched' = [fetched EXCEPT ![r] = e]
            /\ resp' = [resp EXCEPT ![r] = Response(502, "upstream_error", FALSE, NoInt, None)]
            /\ Continue(r, "release_lock")
            /\ UNCHANGED data
    /\ UNCHANGED <<store, req, have_lock, seen, cached, started, orphaned, expiredWhileHeld, robbed>>

\* cache.set_json(key, data, ttl_seconds=...) and the construction of the response
fetch_set_json(r) ==
    /\ pc[r] = "set_json"
    /\ calls' = [calls EXCEPT ![r].set = @ + 1]
    /\ \/ \* client.setex raises: except Exception turns it into 502
          /\ resp' = [resp EXCEPT ![r] = Response(502, "upstream_error", FALSE, NoInt, None)]
          /\ UNCHANGED store
       \/ \E t \in Clock :
            /\ store' = set_json(store, KeyOf(r), data[r], Ttl(req[r].kind), t)
            /\ resp' = [resp EXCEPT ![r] =
                  IF Renders(data[r], req[r].kind, req[r].country)
                  THEN Response(200, "fresh", FALSE, NoInt, data[r])
                  ELSE Response(502, "upstream_error", FALSE, NoInt, None)]
    /\ Continue(r, "release_lock")
    /\ UNCHANGED <<req, have_lock, data, seen, cached, fetched, started, raced, orphaned,
                   expiredWhileHeld, robbed>>

\* whether r is between its successful acquire_lock and its release_lock
Holding(r) == pc[r] \in {"upstream", "set_json", "release_lock"}

\* whether the lock entry under lk is the one r's request created
OwnEntry(r, lk) == store[lk].type = "lock" /\ store[lk].by = r

\* whether the DEL of r's release_lock deletes the lock entry that v's request
\* created and that v, still at work, relies on
RobbedBy(v, r) ==
    /\ v # r
    /\ Holding(v)
    /\ LockKey(KeyOf(v)) = LockKey(KeyOf(r))
    /\ OwnEntry(v, LockKey(KeyOf(v)))

\* a faulty handler: release_lock is the last statement of the try body instead of
\* a finally clause, so an exit by exception skips it
fetch_release_lock_outside_finally(r) ==
    /\ pc[r] = "release_lock"
    /\ have_lock[r] = "True"
    /\ IF resp[r].status = 200
       THEN \/ /\ store' = release_lock(store, LockKey(KeyOf(r)))
               /\ Return(r, resp[r], [calls[r] EXCEPT !.release = @ + 1], have_lock[r],
                         cached[r], TRUE)
            \/ /\ UNCHANGED store
               /\ ReturnAfter(r, resp[r], [calls[r] EXCEPT !.release = @ + 1], have_lock[r],
                              cached[r], TRUE, TRUE)
       ELSE /\ UNCHANGED store
            /\ Return(r, resp[r], calls[r], have_lock[r], cached[r], TRUE)
    /\ robbed' = [robbed EXCEPT ![r] = FALSE]
    /\ UNCHANGED <<started, orphaned, expiredWhileHeld>>

\* finally: if have_lock: cache.release_lock(lock_key); a failing DEL is swallowed;
\* then the pending response or HTTP error leaves the handler
fetch_release_lock(r) ==
    /\ pc[r] = "release_lock"
    /\ have_lock[r] = "True"
    /\ \/ /\ store' = release_lock(store, LockKey(KeyOf(r)))
          /\ robbed' = [v \in Reqs |-> v # r /\ (robbed[v] \/ RobbedBy(v, r))]
          /\ Return(r, resp[r], [calls[r] EXCEPT !.release = @ + 1], have_lock[r],
                    cached[r], TRUE)
       \/ \* client.delete raises: `except Exception: pass`
          /\ UNCHANGED store
          /\ robbed' = [robbed EXCEPT ![r] = FALSE]
          /\ ReturnAfter(r, resp[r], [calls[r] EXCEPT !.release = @ + 1], have_lock[r],
                         cached[r], TRUE, TRUE)
    /\ UNCHANGED <<started, orphaned, expiredWhileHeld>>

\* an entry the store will drop by itself: it was set with a time to live
Expires(e) ==
    \/ e.type = "lock" /\ e.px > 0
    \/ e.type = "json" /\ e.ttl > 0

\* Redis drops a key whose TTL (SETEX seconds, SET PX milliseconds) has elapsed
Expire(k) ==
    /\ store[k] # Absent
    /\ Expires(store[k])
    /\ store' = [store EXCEPT ![k] = Absent]
    /\ expiredWhileHeld' =
          (expiredWhileHeld \/ \E r \in Reqs :
               Holding(r) /\ LockKey(KeyOf(r)) = k /\ OwnEntry(r, k))
    /\ returned' = NoReturn
    /\ UNCHANGED <<pc, req, have_lock, data, resp, seen, cached, fetched, calls, started, raced,
                   orphaned, robbed>>

Next ==
    \/ \E r \in Reqs : Start(r)
    \/ \E r \in Reqs : geocode(r)
    \/ \E r \in Reqs : fetch_check_cache(r)
    \/ \E r \in Reqs : fetch_acquire_lock(r)
    \/ \E r \in Reqs : fetch_upstream(r)
    \/ \E r \in Reqs : fetch_set_json(r)
    \/ \E r \in Reqs : fetch_release_lock(r)
    \/ \E k \in StoreKeys : Expire(k)

Spec == Init /\ [][Next]_vars

\* the next statement of r's request: every await of the handler comes back (a
\* Redis command returns or raises, the upstream call returns, raises or times
\* out), and the event loop then runs the coroutine on
Step(r) ==
    \/ geocode(r)
    \/ fetch_check_cache(r)
    \/ fetch_acquire_lock(r)
    \/ fetch_upstream(r)
    \/ fetch_set_json(r)
    \/ fetch_release_lock(r)

LiveSpec == Init /\ [][Next]_vars /\ \A r \in Reqs : WF_vars(Step(r))

\* ---- process crashes ----
\* the process serving r's request dies between the return of acquire_lock and the
\* call of release_lock: its locals are gone, nothing is returned, and the lock
\* entry it created stays in the store with its PX (by |-> 0: its creator is gone)
Crash(r) ==
    /\ Holding(r)
    /\ LET lk == LockKey(KeyOf(r)) IN
       IF OwnEntry(r, lk)
       THEN /\ store' = [store EXCEPT ![lk].by = 0]
            /\ orphaned' = orphaned \cup {lk}
       ELSE UNCHANGED <<store, orphaned>>
    /\ Reset(r)
    /\ returned' = NoReturn
    /\ robbed' = [robbed EXCEPT ![r] = FALSE]
    /\ UNCHANGED <<started, expiredWhileHeld>>

\* the requests of the runs with crashes: those of the route that calls
\* _fetch_current with the coordinates of the query
CurrentInputs == { i \in RequestInputs : i.route = "/v1/weather/current" }

CrashStart(r) == StartWithin(r, MaxCrashRequests, CurrentInputs)

CrashNext ==
    \/ \E r \in Reqs : CrashStart(r)
    \/ \E r \in Reqs : fetch_check_cache(r)
    \/ \E r \in Reqs : fetch_acquire_lock(r)
    \/ \E r \in Reqs : fetch_upstream(r)
    \/ \E r \in Reqs : fetch_set_json(r)
    \/ \E r \in Reqs : fetch_release_lock(r)
    \/ \E r \in Reqs : Crash(r)
    \/ \E k \in StoreKeys : Expire(k)

\* Redis drops a key with a TTL once the TTL has elapsed, whatever the requests do
CrashSpec ==
    /\ Init
    /\ [][CrashNext]_vars
    /\ \A k \in StoreKeys : WF_vars(Expire(k))

\* ---- three requests for one key in a row ----
RaceStart(r) == StartWithin(r, MaxRaceRequests, CurrentInputs)

RaceNext ==
    \/ \E r \in Reqs : RaceStart(r)
    \/ \E r \in Reqs : fetch_check_cache(r)
    \/ \E r \in Reqs : fetch_acquire_lock(r)
    \/ \E r \in Reqs : fetch_upstream(r)
    \/ \E r \in Reqs : fetch_set_json(r)
    \/ \E r \in Reqs : fetch_release_lock(r)
    \/ \E k \in StoreKeys : Expire(k)

RaceSpec == Init /\ [][RaceNext]_vars

\* ---- requests on keys that differ in one component ----
\* no TTL elapses in these runs: what a request leaves in the store stays there
\* the requests of these runs: for the same place and resource kind, in both units
UnitsInputs ==
    { i \in IsolationInputs : RouteKind(i.route) = "current" /\ i.lat = 51507 }

\* the requests of these runs are those of IsolationSeq, each once, arriving in
\* that order
IsolationStart(r) ==
    /\ started < Len(IsolationSeq)
    /\ StartWithin(r, Len(IsolationSeq), {IsolationSeq[started + 1]})

IsolationNext ==
    \/ \E r \in Reqs : IsolationStart(r)
    \/ \E r \in Reqs : fetch_check_cache(r)
    \/ \E r \in Reqs : fetch_acquire_lock(r)
    \/ \E r \in Reqs : fetch_upstream(r)
    \/ \E r \in Reqs : fetch_set_json(r)
    \/ \E r \in Reqs : fetch_release_lock(r)

IsolationSpec == Init /\ [][IsolationNext]_vars

\* ---- requests by city name ----
CityStart(r) == StartWithin(r, MaxCityRequests, CityInputs)

CityNext ==
    \/ \E r \in Reqs : CityStart(r)
    \/ \E r \in Reqs : geocode(r)
    \/ \E r \in Reqs : fetch_check_cache(r)
    \/ \E r \in Reqs : fetch_acquire_lock(r)
    \/ \E r \in Reqs : fetch_upstream(r)
    \/ \E r \in Reqs : fetch_set_json(r)
    \/ \E r \in Reqs : fetch_release_lock(r)
    \/ \E k \in StoreKeys : Expire(k)

CitySpec == Init /\ [][CityNext]_vars

\* ---- the methods of RedisCache, called one by one by any caller ----
\* the keys the calls are made on: one cache key and its lock key
OpKey == CacheKey("current", "metric", 51507, -128)

\* what a call returned: `ok` is the boolean acquire_lock returned (for the other
\* methods: whether the Redis command was executed), `got` the CacheResult of
\* get_json, `t` the reading of int(time.time()) the call made, `arg` the payload
\* passed to set_json, `before` what the store held under the key
Called(w, op, key, ok, got, t, arg) ==
    [worker |-> w, op |-> op, key |-> key, ok |-> ok, got |-> got, t |-> t,
     arg |-> arg, before |-> store[key]]

RequestVars == <<pc, req, have_lock, data, resp, seen, cached, fetched, calls, started, raced,
                 orphaned, expiredWhileHeld, robbed>>

call_acquire_lock(w) ==
    LET lk == LockKey(OpKey) IN
    /\ store' = acquire_lock(store, lk, LOCK_TTL_MS, w)
    /\ returned' = Called(w, "acquire_lock", lk, acquire_lock_result(store, lk), Miss, 0, None)
    /\ UNCHANGED RequestVars

\* release_lock returns nothing, whether the DEL was executed or failed
call_release_lock(w) ==
    LET lk == LockKey(OpKey) IN
    /\ \/ /\ store' = release_lock(store, lk)
          /\ returned' = Called(w, "release_lock", lk, TRUE, Miss, 0, None)
       \/ /\ UNCHANGED store
          /\ returned' = Called(w, "release_lock", lk, FALSE, Miss, 0, None)
    /\ UNCHANGED RequestVars

call_set_json(w) ==
    /\ \E p \in Payloads, t \in Clock :
          /\ store' = set_json(store, OpKey, p, Ttl(OpKey[1]), t)
          /\ returned' = Called(w, "set_json", OpKey, TRUE, Miss, t, p)
    /\ UNCHANGED RequestVars

call_get_json(w) ==
    /\ \E t \in Clock :
          returned' = Called(w, "get_json", OpKey, TRUE, get_json(store[OpKey], t), t, None)
    /\ UNCHANGED <<store, RequestVars>>

StoreNext ==
    \/ \E w \in Reqs : call_acquire_lock(w)
    \/ \E w \in Reqs : call_release_lock(w)
    \/ \E w \in Reqs : call_set_json(w)
    \/ \E w \in Reqs : call_get_json(w)
    \/ \E k \in StoreKeys : Expire(k)

StoreSpec == Init /\ [][StoreNext]_vars

\* ---- values in the store that the service did not write ----
\* another client of the Redis instance puts a value under the cache key
foreign_write(v) ==
    /\ store[OpKey] # v
    /\ store' = [store EXCEPT ![OpKey] = v]
    /\ returned' = NoReturn
    /\ UNCHANGED RequestVars

\* the requests of these runs: those for the key of the foreign values
CorruptInputs ==
    { i \in UnitsInputs :
        CacheKey(RouteKind(i.route), i.units, i.lat, i.lon) = OpKey }

CorruptStart(r) == StartWithin(r, MaxCorruptRequests, CorruptInputs)

CorruptNext ==
    \/ \E r \in Reqs : CorruptStart(r)
    \/ \E r \in Reqs : fetch_check_cache(r)
    \/ \E r \in Reqs : fetch_acquire_lock(r)
    \/ \E r \in Reqs : fetch_upstream(r)
    \/ \E r \in Reqs : fetch_set_json(r)
    \/ \E r \in Reqs : fetch_release_lock(r)
    \/ \E v \in ForeignValues : foreign_write(v)
    \/ \E k \in StoreKeys : Expire(k)

CorruptSpec == Init /\ [][CorruptNext]_vars

\* ---- runs in which no TTL elapses ----
\* the requests of these runs: those of the two routes that take coordinates
RetryInputs == { i \in RequestInputs : ~CityRoute(i.route) }

RetryStart(r) == StartWithin(r, MaxRetryRequests, RetryInputs)

\* no lock entry and no record expires
RetryNext ==
    \/ \E r \in Reqs : RetryStart(r)
    \/ \E r \in Reqs : fetch_check_cache(r)
    \/ \E r \in Reqs : fetch_acquire_lock(r)
    \/ \E r \in Reqs : fetch_upstream(r)
    \/ \E r \in Reqs : fetch_set_json(r)
    \/ \E r \in Reqs : fetch_release_lock(r)

RetrySpec == Init /\ [][RetryNext]_vars

\* ---- src/main.py: the route handlers current_weather and forecast ----
\* The handlers have the statements of _fetch_current / _fetch_forecast, but the
\* module does not import httpx and has no `except HTTPException: raise`. When
\* the try body raises, the first except clause evaluates httpx.HTTPStatusError,
\* which raises NameError; the finally clause runs and the NameError leaves the
\* handler: the framework answers 500, whatever was raised.
\* have_lock = cache.acquire_lock(lock_key, ttl_ms=10_000); if not have_lock: raise 503
current_weather_acquire_lock(r) ==
    /\ pc[r] = "acquire_lock"
    /\ LET c  == [calls[r] EXCEPT !.acquire = @ + 1]
           lk == LockKey(KeyOf(r))
       IN
       \/ /\ Return(r, Unclassified, c, have_lock[r], cached[r], TRUE)
          /\ UNCHANGED store
       \/ /\ store' = acquire_lock(store, lk, LOCK_TTL_MS, r)
          /\ IF acquire_lock_result(store, lk)
             THEN /\ have_lock' = [have_lock EXCEPT ![r] = "True"]
                  /\ Continue(r, "upstream")
                  /\ calls' = [calls EXCEPT ![r] = c]
                  /\ UNCHANGED <<req, data, resp, seen, cached, fetched, raced>>
             ELSE Return(r, Unclassified, c, "False", cached[r], TRUE)
    /\ UNCHANGED <<started, orphaned, expiredWhileHeld, robbed>>

\* data = await ow.get_current(...) / ow.get_forecast(...)
current_weather_upstream(r) ==
    /\ pc[r] = "upstream"
    /\ calls' = [calls EXCEPT ![r].upstream = @ + 1]
    /\ raced' = [q \in Reqs |-> raced[q] \/ MissedWith(q, r)]
    /\ \/ \E p \in Payloads :
            /\ data' = [data EXCEPT ![r] = p]
            /\ fetched' = [fetched EXCEPT ![r] = "ok"]
            /\ Continue(r, "set_json")
            /\ UNCHANGED resp
       \/ \E e \in {"http_error", "exception"} :
            /\ fetched' = [fetched EXCEPT ![r] = e]
            /\ resp' = [resp EXCEPT ![r] = Unclassified]
            /\ Continue(r, "release_lock")
            /\ UNCHANGED data
    /\ UNCHANGED <<store, req, have_lock, seen, cached, started, orphaned, expiredWhileHeld, robbed>>

\* cache.set_json(key, data, ttl_seconds=...) and the construction of the response
current_weather_set_json(r) ==
    /\ pc[r] = "set_json"
    /\ calls' = [calls EXCEPT ![r].set = @ + 1]
    /\ \/ /\ resp' = [resp EXCEPT ![r] = Unclassified]
          /\ UNCHANGED store
       \/ \E t \in Clock :
            /\ store' = set_json(store, KeyOf(r), data[r], Ttl(req[r].kind), t)
            /\ resp' = [resp EXCEPT ![r] =
                  IF Renders(data[r], req[r].kind, None)
                  THEN Response(200, "fresh", FALSE, NoInt, data[r])
                  ELSE Unclassified]
    /\ Continue(r, "release_lock")
    /\ UNCHANGED <<req, have_lock, data, seen, cached, fetched, started, raced, orphaned,
                   expiredWhileHeld, robbed>>

\* the worker that serves its requests with src/main.py; the other workers serve
\* theirs with src/app/main.py, on the same Redis
RootWorker == 2

EntryStart(r) == StartWithin(r, MaxEntryRequests, RetryInputs)

\* the cache lookup with its hit branch and the finally clause read the same in
\* both modules
EntryNext ==
    \/ \E r \in Reqs : EntryStart(r)
    \/ \E r \in Reqs : fetch_check_cache(r)
    \/ \E r \in Reqs \ {RootWorker} : fetch_acquire_lock(r)
    \/ \E r \in Reqs \ {RootWorker} : fetch_upstream(r)
    \/ \E r \in Reqs \ {RootWorker} : fetch_set_json(r)
    \/ current_weather_acquire_lock(RootWorker)
    \/ current_weather_upstream(RootWorker)
    \/ current_weather_set_json(RootWorker)
    \/ \E r \in Reqs : fetch_release_lock(r)
    \/ \E k \in StoreKeys : Expire(k)

EntrySpec == Init /\ [][EntryNext]_vars

\* ---- rounded_coords, called on the coordinates of requests ----
\* the values of `decimals`
Precisions == 0 .. InputDecimals

RoundStart(r) == StartWithin(r, MaxRoundRequests, RoundInputs)

\* what a call of rounded_coords(lat, lon, decimals) returned; `again` tells that
\* lat and lon were the result `prev` of the call before
Rounded(w, lat, lon, decimals, again, prev) ==
    [worker |-> w, op |-> "rounded_coords", lat |-> lat, lon |-> lon,
     decimals |-> decimals, got |-> rounded_floats(lat, lon, decimals),
     again |-> again, prev |-> prev]

\* rounded_coords on the coordinates of the request of r
call_rounded_coords(r) ==
    /\ pc[r] = "check_cache"
    /\ \E d \in Precisions :
          returned' = Rounded(r, Float(req[r].lat), Float(req[r].lon), d, FALSE, <<>>)
    /\ UNCHANGED <<store, RequestVars>>

\* rounded_coords on what the last call returned, with the same `decimals`
call_rounded_coords_again(r) ==
    /\ returned.worker = r
    /\ returned.op = "rounded_coords"
    /\ ~returned.again
    /\ returned' = Rounded(r, Widen(returned.got[1], returned.decimals),
                              Widen(returned.got[2], returned.decimals),
                           returned.decimals, TRUE, returned.got)
    /\ UNCHANGED <<store, RequestVars>>

RoundNext ==
    \/ \E r \in Reqs : RoundStart(r)
    \/ \E r \in Reqs : call_rounded_coords(r)
    \/ \E r \in Reqs : call_rounded_coords_again(r)

RoundSpec == Init /\ [][RoundNext]_vars

\* ---------------------------------------------------------------------------
\* Properties
\* ---------------------------------------------------------------------------

\* the last step returned a response or an HTTP error of _fetch_current / _fetch_forecast
FetchReturned == returned.worker # 0 /\ returned.entered

UpstreamFailed(f) == f \in {"http_error", "exception"}

\* C1, as stated: of the requests in progress together that missed the cache on the
\* same key while it held no record, at most one calls the upstream provider, and
\* every other one ends in Busy without calling it.
C1_AtMostOneCallsUpstream ==
    /\ \A q \in Reqs : raced[q] => calls[q].upstream = 0
    /\ (FetchReturned /\ returned.raced) =>
          (returned.response.origin = "busy" /\ returned.calls.upstream = 0)

\* C1, amended: as long as no lock entry has expired while its acquirer was still at
\* work, at most one request per key has an upstream call in flight at any moment;
\* a request that ends in Busy found the lock entry in the store and has not called
\* the upstream provider; and a request whose acquire_lock runs while the lock
\* entry is in the store returns in that very step without a call of the upstream
\* provider: in Busy (503) when acquire_lock returned (False), and with an
\* unhandled error (500) when the SET itself raised, have_lock still unbound.
C1_OneFetchAtATime ==
    /\ [](~expiredWhileHeld =>
             \A r1, r2 \in Reqs :
                (r1 # r2 /\ pc[r1] = "upstream" /\ pc[r2] = "upstream")
                   => KeyOf(r1) # KeyOf(r2))
    /\ []((FetchReturned /\ returned.response.origin = "busy") =>
             /\ returned.calls.upstream = 0
             /\ store[LockKey(returned.key)] # Absent)
    /\ [][\A r \in Reqs :
            (pc[r] = "acquire_lock" /\ store[LockKey(KeyOf(r))] # Absent /\ pc'[r] # pc[r])
               => /\ returned'.worker = r
                  /\ returned'.calls.upstream = 0
                  /\ \/ /\ returned'.have_lock = "False"
                        /\ returned'.response = Response(503, "busy", FALSE, NoInt, None)
                     \/ /\ returned'.have_lock = "unbound"
                        /\ returned'.response = Unclassified]_vars

\* a request ends in Busy while another request for the same key is fetching
C1_Witness ==
    /\ FetchReturned
    /\ returned.response.origin = "busy"
    /\ \E r \in Reqs : pc[r] = "upstream" /\ KeyOf(r) = returned.key

\* C2, as stated: a request whose acquire_lock returned true calls release_lock
\* before it terminates, and does not terminate with its lock entry still in the store.
C2_NeverTerminatesHolding ==
    (FetchReturned /\ returned.have_lock = "True") =>
        /\ returned.calls.release = 1
        /\ ~OwnEntry(returned.worker, LockKey(returned.key))

\* C2, amended: a request whose acquire_lock returned true has called release_lock
\* exactly once when it terminates, on every exit path, and terminates with no lock
\* entry of its own in the store unless the DEL of that release_lock raised, which
\* release_lock swallows; while it is still at work it has not called release_lock.
C2_ReleaseCalledOnEveryExit ==
    /\ (FetchReturned /\ returned.have_lock = "True") =>
          /\ returned.calls.release = 1
          /\ OwnEntry(returned.worker, LockKey(returned.key)) => returned.release_raised
    /\ \A r \in Reqs : calls[r].release = 0

\* a request that acquired the lock leaves with 502 although its upstream fetch
\* succeeded (the cache write or the construction of the response failed), having
\* called release_lock, whose DEL went through: the lock key holds nothing
C2_Witness ==
    /\ FetchReturned
    /\ returned.have_lock = "True"
    /\ returned.fetched = "ok"
    /\ returned.response.status = 502
    /\ returned.calls.release = 1
    /\ ~returned.release_raised
    /\ store[LockKey(returned.key)] = Absent

\* C3, as stated: a request whose cache get returned a hit with a payload terminates
\* in RETURN_CACHED with the age the cache reported, and has called neither the
\* upstream provider nor acquire_lock, release_lock or set_json.
C3_HitReturnsCached ==
    (FetchReturned /\ returned.cached.hit /\ returned.cached.value # None) =>
        /\ returned.response.origin = "cached"
        /\ returned.response.status = 200
        /\ returned.response.hit
        /\ returned.response.age_seconds = returned.cached.age_seconds
        /\ returned.calls = [NoCalls EXCEPT !.get = 1]

\* C4, as stated: a request whose acquire_lock returned false terminates in Busy
\* (503) and has called neither the upstream provider nor set_json nor
\* release_lock; every request whose acquire_lock runs while the lock entry exists
\* returns in that very step in Busy (503), leaving the store unchanged.
C4_BusyPath ==
    /\ [](FetchReturned /\ returned.have_lock = "False" =>
            /\ returned.response.status = 503
            /\ returned.response.origin = "busy"
            /\ returned.calls = [NoCalls EXCEPT !.get = 1, !.acquire = 1])
    /\ [][\A r \in Reqs :
            (pc[r] = "acquire_lock" /\ store[LockKey(KeyOf(r))] # Absent /\ pc'[r] # pc[r])
               => /\ returned'.worker = r
                  /\ returned'.response.status = 503
                  /\ returned'.response.origin = "busy"
                  /\ store' = store]_vars

\* C5, as stated: a request whose upstream fetch failed has called release_lock,
\* terminates in UpstreamError (502), and the record of its key is what it was when
\* the request read it.
C5_CacheAsBefore ==
    (FetchReturned /\ UpstreamFailed(returned.fetched)) =>
        /\ returned.calls.release = 1
        /\ returned.response.status = 502
        /\ returned.response.origin = "upstream_error"
        /\ store[returned.key] = returned.seen

\* C5, amended: a request whose upstream fetch failed has called release_lock,
\* terminates in UpstreamError (502) and has never called set_json; none of its
\* steps after the failure changes a cache record.
C5_FailureLeavesCacheAlone ==
    /\ [](FetchReturned /\ UpstreamFailed(returned.fetched) =>
            /\ returned.calls.release = 1
            /\ returned.calls.set = 0
            /\ returned.calls.upstream = 1
            /\ returned.response.status = 502
            /\ returned.response.origin = "upstream_error")
    /\ [][\A r \in Reqs :
            (UpstreamFailed(fetched[r]) /\ pc'[r] # pc[r])
               => \A k \in CacheKeys : store'[k] = store[k]]_vars

\* a request whose upstream fetch failed returned 502
C5_Witness ==
    /\ FetchReturned
    /\ UpstreamFailed(returned.fetched)
    /\ returned.response.status = 502

\* C6, as stated: a request whose upstream fetch succeeded has called set_json and
\* then release_lock, and terminates in RETURN_FRESH (hit false, no age); no other
\* outcome follows a successful fetch.
C6_SuccessReturnsFresh ==
    (FetchReturned /\ returned.fetched = "ok") =>
        /\ returned.calls.set = 1
        /\ returned.calls.release = 1
        /\ returned.response.origin = "fresh"
        /\ returned.response.status = 200
        /\ ~returned.response.hit
        /\ returned.response.age_seconds = NoInt

\* C7: a cache record is created or overwritten only by the set_json step of a
\* request for that key whose own upstream fetch succeeded, with the payload that
\* fetch returned and the TTL of its resource kind; a request that ends cached, Busy
\* or after a failed fetch has never called set_json.
C7_WriteProvenance ==
    /\ [][\A k \in CacheKeys :
            (store'[k] # store[k] /\ store'[k] # Absent)
               => \E r \in Reqs :
                     /\ pc[r] = "set_json" /\ pc'[r] = "release_lock"
                     /\ KeyOf(r) = k
                     /\ fetched[r] = "ok"
                     /\ store'[k].type = "json"
                     /\ store'[k].payload = data[r]
                     /\ store'[k].ttl = Ttl(req[r].kind)]_vars
    /\ [](FetchReturned /\ (returned.response.origin \in {"cached", "busy"}
                             \/ UpstreamFailed(returned.fetched))
            => returned.calls.set = 0)

\* a request returned fresh and the record of its key holds the payload it fetched
C7_Witness ==
    /\ FetchReturned
    /\ returned.response.origin = "fresh"
    /\ store[returned.key].type = "json"
    /\ store[returned.key].payload = returned.data

\* C8, as stated: every request terminates with one of the classified outcomes
\* (200, or 400, 502, 503) and has called every step at most once.
C8_EveryFailureClassified ==
    returned.worker # 0 =>
        /\ returned.response.status \in {200, 400, 502, 503}
        /\ \A f \in DOMAIN returned.calls : returned.calls[f] <= 1

\* C9: a request has called the upstream weather provider exactly once when it
\* terminates in RETURN_FRESH or UpstreamError, not at all when it terminates in
\* RETURN_CACHED or Busy, and never more than once.
C9_UpstreamCallCount ==
    /\ \A r \in Reqs : calls[r].upstream <= 1
    /\ FetchReturned =>
          /\ returned.calls.upstream <= 1
          /\ returned.response.origin \in {"fresh", "upstream_error"}
                => returned.calls.upstream = 1
          /\ returned.response.origin \in {"cached", "busy"}
                => returned.calls.upstream = 0

\* a request terminated in UpstreamError after one upstream call that failed
C9_Witness ==
    /\ FetchReturned
    /\ returned.response.origin = "upstream_error"
    /\ returned.fetched = "http_error"
    /\ returned.calls.upstream = 1

\* the lock entry under lk was left behind by a request that crashed
Orphan(lk) == store[lk].type = "lock" /\ store[lk].by = 0

\* C10: every lock entry carries a positive PX; a lock entry left behind by a request
\* that crashed between acquire_lock and release_lock is eventually absent; and a
\* request whose acquire_lock runs while the entry is absent is not answered Busy:
\* it goes on to the upstream fetch (unless the SET itself fails).
C10_LockSelfHeals ==
    /\ [](\A k \in LockKeys : store[k].type = "lock" => store[k].px > 0)
    /\ \A k \in LockKeys : Orphan(k) ~> (store[k] = Absent)
    /\ [][\A r \in Reqs :
            (pc[r] = "acquire_lock" /\ store[LockKey(KeyOf(r))] = Absent /\ pc'[r] # pc[r])
               => \/ pc'[r] = "upstream" /\ have_lock'[r] = "True"
                  \/ returned'.worker = r /\ returned'.response.status = 500]_vars

\* after a request crashed holding the lock of a key, a later request that missed
\* the cache on that key has acquired the lock and is fetching
C10_Witness ==
    \E r \in Reqs :
        /\ pc[r] = "upstream"
        /\ LockKey(KeyOf(r)) \in orphaned
        /\ OwnEntry(r, LockKey(KeyOf(r)))

\* r's request is inside _fetch_current / _fetch_forecast
InFetch(r) == pc[r] \in {"check_cache", "acquire_lock", "upstream", "set_json", "release_lock"}

\* f and g are the same number (0.0 and -0.0 are)
SameFloat(f, g) == f.mag = g.mag /\ (f.mag = 0 \/ f.neg = g.neg)

\* the arguments x and y of _fetch_* agree in resource kind, units and rounded
\* coordinates
SameTarget(x, y) ==
    LET a == rounded_coords(x.lat, x.lon, cache_coord_round_decimals)
        b == rounded_coords(y.lat, y.lon, cache_coord_round_decimals)
    IN  /\ x.kind = y.kind
        /\ x.units = y.units
        /\ SameFloat(a[1], b[1]) /\ SameFloat(a[2], b[2])

\* the cache keys and lock keys of x and y are four different texts
DistinctKeys(x, y) ==
    LET kx == KeyText(CacheKey(x.kind, x.units, x.lat, x.lon))
        ky == KeyText(CacheKey(y.kind, y.units, y.lat, y.lon))
        lx == KeyText(LockKey(CacheKey(x.kind, x.units, x.lat, x.lon)))
        ly == KeyText(LockKey(CacheKey(y.kind, y.units, y.lat, y.lon)))
    IN  kx # ky /\ lx # ly /\ kx # ly /\ lx # ky

\* arguments of _fetch_* that differ in one component each
IsolationArgs ==
    { FetchArgs(RouteKind(i.route), i.units, i.lat, i.lon, None) : i \in IsolationInputs }

\* the cache key of the i-th request of IsolationSeq
IsolationKey(i) ==
    CacheKey(RouteKind(IsolationSeq[i].route), IsolationSeq[i].units,
             IsolationSeq[i].lat, IsolationSeq[i].lon)

\* C11: two requests that differ in resource kind, units or rounded coordinates have
\* cache keys and lock keys with four different texts; in runs in which every
\* request differs from every other in resource kind, units or rounded
\* coordinates, none is answered from the cache and none ends in Busy, whatever
\* the others have stored and whatever locks they hold; and no step of a request
\* changes an entry of the store other than those under its own cache key and lock
\* key, so what a request reads is never written by a request for another key.
C11_KeyIsolation ==
    /\ [](FetchReturned => returned.response.origin \notin {"cached", "busy"})
    /\ \A x, y \in IsolationArgs : ~SameTarget(x, y) => DistinctKeys(x, y)
    /\ [](\A q, r \in Reqs :
            (InFetch(q) /\ InFetch(r) /\ ~SameTarget(req[q], req[r])) =>
                /\ KeyOf(q) # KeyOf(r)
                /\ DistinctKeys(req[q], req[r]))
    /\ [][\A r \in Reqs :
            (InFetch(r) /\ pc'[r] # pc[r]) =>
                \A k \in StoreKeys \ {KeyOf(r), LockKey(KeyOf(r))} :
                    store'[k] = store[k]]_vars

\* the first request has stored its record and still holds its lock, and meanwhile
\* the requests that differ from it in resource kind, in units and in rounded
\* coordinates have each fetched and stored a record of their own, the last of
\* them returning its fresh response now
C11_Witness ==
    /\ \E r \in Reqs :
          /\ pc[r] = "release_lock"
          /\ KeyOf(r) = IsolationKey(1)
          /\ OwnEntry(r, LockKey(KeyOf(r)))
    /\ \A i \in 1..Len(IsolationSeq) : store[IsolationKey(i)].type = "json"
    /\ FetchReturned
    /\ returned.key = IsolationKey(Len(IsolationSeq))
    /\ returned.response.origin = "fresh"
    /\ returned.response.status = 200
    /\ store[LockKey(returned.key)] = Absent

\* the last step returned the HTTP error of a failed _geocode
GeocodeFailed == returned.worker # 0 /\ ~returned.entered

\* C12: a request on a city-name route whose location resolution fails ends with
\* 400 when the resolver knows no such city and with 502 when the resolver answers
\* with an HTTP error or cannot be reached; it has made no call to the cache, the
\* lock or the weather upstream, and the step that ends it leaves the store as it is.
C12_GeocodeFailure ==
    /\ [](GeocodeFailed =>
            /\ returned.response.origin \in GeoFailures
            /\ returned.response.origin = "not_found" => returned.response.status = 400
            /\ returned.response.origin \in {"http_error", "network_error"}
                  => returned.response.status = 502
            /\ returned.calls = NoCalls
            /\ returned.have_lock = "unbound")
    /\ [][\A r \in Reqs :
            (pc[r] = "geocode" /\ pc'[r] = "idle") =>
                /\ store' = store
                /\ returned'.worker = r /\ ~returned'.entered]_vars

\* a request for an unknown city ended with 400 while another request holds a lock
\* and a record is cached: neither was touched
C12_Witness ==
    /\ GeocodeFailed
    /\ returned.response.origin = "not_found"
    /\ returned.response.status = 400
    /\ \E r \in Reqs : Holding(r) /\ OwnEntry(r, LockKey(KeyOf(r)))

\* the last step was a call of `op` on a RedisCache
WasCall(op) == returned.worker # 0 /\ returned.op = op

\* C13: acquire_lock returns true exactly when the key is absent, and then creates
\* the entry with its PX; it returns false and leaves the store unchanged when the
\* key is present. An acquire that follows a successful acquire of the same key
\* with no release or expiry between them returns false, and an acquire that
\* follows a release_lock whose DEL was executed returns true.
C13_AcquireRelease ==
    /\ [](WasCall("acquire_lock") =>
            /\ returned.ok <=> returned.before = Absent
            /\ returned.ok =>
                  /\ store[returned.key].type = "lock"
                  /\ store[returned.key].px = LOCK_TTL_MS
                  /\ store[returned.key].by = returned.worker
            /\ ~returned.ok => store[returned.key] = returned.before)
    /\ [][(returned'.worker # 0 /\ returned'.op = "acquire_lock") =>
            /\ \A k \in StoreKeys \ {returned'.key} : store'[k] = store[k]
            /\ (WasCall("acquire_lock") /\ returned.ok) => ~returned'.ok
            /\ (WasCall("release_lock") /\ returned.ok) => returned'.ok]_vars
    /\ [](WasCall("release_lock") /\ returned.ok => store[returned.key] = Absent)

\* a caller's acquire returned false because another caller's entry is there
C13_Witness ==
    /\ WasCall("acquire_lock")
    /\ ~returned.ok
    /\ store[returned.key].type = "lock"
    /\ store[returned.key].by # returned.worker

\* C14: as long as no lock entry has expired while the request that created it was
\* between its successful acquire_lock and its release_lock, at most one request per
\* key is between a successful acquire_lock and its release_lock at any moment.
C14_MutualExclusion ==
    ~expiredWhileHeld =>
        \A q, r \in Reqs :
            (q # r /\ Holding(q) /\ Holding(r)) => KeyOf(q) # KeyOf(r)

\* a request has stored its record and is about to release the lock it still owns
\* while another request for the same key is about to call acquire_lock; no lock
\* entry has expired under its holder so far
C14_Witness ==
    /\ ~expiredWhileHeld
    /\ \E q, r \in Reqs :
          /\ pc[q] = "release_lock" /\ fetched[q] = "ok"
          /\ OwnEntry(q, LockKey(KeyOf(q)))
          /\ pc[r] = "acquire_lock"
          /\ KeyOf(r) = KeyOf(q)

\* C15: release_lock deletes the lock entry whoever created it. The entry of a
\* request still at work is deleted by another request's release_lock only after a
\* lock entry has expired under its holder (the releasing request held the lock
\* first and outlived its entry), and the request so deprived goes on fetching and
\* storing without any entry of its own in the store.
C15_ReleaseRace ==
    \A v \in Reqs :
        robbed[v] =>
            /\ expiredWhileHeld
            /\ Holding(v)
            /\ have_lock[v] = "True"
            /\ ~OwnEntry(v, LockKey(KeyOf(v)))

\* request B, whose lock entry was deleted by the release_lock of a request A that
\* had outlived its own entry, is still fetching while a third request C has
\* acquired the lock of the same key and is fetching too
C15_Witness ==
    \E b, c \in Reqs :
        /\ b # c
        /\ robbed[b]
        /\ pc[b] = "upstream" /\ pc[c] = "upstream"
        /\ KeyOf(b) = KeyOf(c)
        /\ OwnEntry(c, LockKey(KeyOf(c)))

\* the CacheResult of a hit
Hit(payload, age) ==
    [value |-> payload, hit |-> TRUE, age_seconds |-> Some(age), stale |-> FALSE]

\* what a cache key may hold when set_json is called on it
StoredValues ==
    {Absent} \cup ForeignValues
      \cup [type : {"json"}, stored_at : Clock, payload : Payloads,
            ttl : {cache_ttl_current_seconds, cache_ttl_forecast_seconds}]

\* C17: set_json(k, v, ttl) replaces whatever k holds by the record of payload v,
\* stored_at = the time of the write and the given ttl, and touches no other key; a
\* get_json(k) that follows it returns a hit with payload v, with age 0 when its
\* clock reads the same second. The record under a key changes only by a set_json
\* or by its expiry, so the record that remains after several puts is the one of
\* the put executed last.
C17_PutOverwrites ==
    /\ \A b \in StoredValues : \A p \in Payloads : \A t \in Clock :
        \A ttl \in {cache_ttl_current_seconds, cache_ttl_forecast_seconds} :
          LET s == [k \in StoreKeys |-> IF k = OpKey THEN b ELSE Absent]
              u == set_json(s, OpKey, p, ttl, t)
          IN /\ u[OpKey] = [type |-> "json", stored_at |-> t, payload |-> p, ttl |-> ttl]
             /\ \A k \in StoreKeys \ {OpKey} : u[k] = s[k]
             /\ get_json(u[OpKey], t) = Hit(p, 0)
    /\ [](WasCall("set_json") =>
            /\ store[returned.key] =
                  [type |-> "json", stored_at |-> returned.t, payload |-> returned.arg,
                   ttl |-> Ttl(returned.key[1])]
            /\ get_json(store[returned.key], returned.t) = Hit(returned.arg, 0))
    /\ [][(WasCall("set_json") /\ returned'.worker # 0 /\ returned'.op = "get_json") =>
            returned'.got = Hit(returned.arg, Max(0, returned'.t - returned.t))]_vars
    /\ [][store'[OpKey] # store[OpKey] =>
            \/ returned'.worker # 0 /\ returned'.op = "set_json"
            \/ store'[OpKey] = Absent]_vars

\* a put has replaced the record of an earlier put that held another payload
C17_Witness ==
    /\ WasCall("set_json")
    /\ returned.before.type = "json"
    /\ returned.before.payload # returned.arg
    /\ returned.before.stored_at > returned.t
    /\ store[OpKey].payload = returned.arg

\* raw is a record as set_json writes it: a JSON object with an integer stored_at
\* and a payload that is a JSON object
IsRecord(raw) == raw.type = "json"

\* C16, as stated: for every value under a cache key that is absent or does not
\* decode to a record, get_json returns not-found with no age; and no request gets
\* a hit with a payload, whether it ends in RETURN_CACHED or in an error, from a
\* value that is no record.
C16_CorruptIsMiss ==
    /\ \A k \in CacheKeys : \A t \in Clock :
          ~IsRecord(store[k]) => get_json(store[k], t) = Miss
    /\ (FetchReturned /\ returned.cached.hit /\ returned.cached.value # None)
          => IsRecord(store[returned.key])

\* C18: every result of get_json, those that requests hold included, carries an age
\* exactly when it is a hit; the age is max(0, now - stored_at), hence never
\* negative, also when stored_at is later than the clock of the reader; its stale
\* flag is false. A response carries an age
\* exactly when it reports a hit, and then the age get_json returned; a response
\* built from a fresh fetch reports no hit and no age; no response is stale.
C18_AgeInvariant ==
    /\ \A k \in CacheKeys : \A t \in Clock :
          LET c == get_json(store[k], t) IN
          /\ c.hit <=> c.age_seconds # NoInt
          /\ c.hit => c.age_seconds = Some(Max(0, t - StoredAt(store[k])))
          /\ \A a \in c.age_seconds : a >= 0
          /\ c.stale = FALSE
    /\ \A x \in {resp[r] : r \in Reqs}
                \cup (IF FetchReturned THEN {returned.response} ELSE {}) :
          /\ x.hit <=> x.age_seconds # NoInt
          /\ x.origin = "fresh" => ~x.hit
          /\ x.stale = FALSE
    /\ \A c \in {cached[r] : r \in Reqs}
                \cup (IF FetchReturned THEN {returned.cached} ELSE {}) :
          /\ c.hit <=> c.age_seconds # NoInt
          /\ \A a \in c.age_seconds : a >= 0
          /\ c.stale = FALSE
    /\ FetchReturned =>
          /\ returned.response.hit => returned.cached.hit
          /\ returned.response.hit =>
                /\ returned.response.age_seconds = returned.cached.age_seconds
                /\ \E t \in Clock : returned.cached = get_json(store[returned.key], t)

\* a request returned a cached response of age 0 from a record whose stored_at is
\* later than the earlier of the two clock readings
C18_Witness ==
    /\ FetchReturned
    /\ returned.response.hit
    /\ returned.response.age_seconds = Some(0)
    /\ store[returned.key].type = "json"
    /\ \E t \in Clock :
          /\ t < store[returned.key].stored_at
          /\ get_json(store[returned.key], t).age_seconds = Some(0)

\* the number a float stands for, in its units
Value(f) == IF f.neg THEN -f.mag ELSE f.mag

\* two numbers differ by less than the resolution 10^-decimals
Close(x, y, decimals) == Abs(x - y) < Pow10(InputDecimals - decimals)

\* the coordinates of the requests of q and r differ by less than the resolution
\* of the keys, and resource kind and units are the same
Neighbours(q, r) ==
    /\ InFetch(q) /\ InFetch(r)
    /\ req[q].kind = req[r].kind /\ req[q].units = req[r].units
    /\ Close(req[q].lat, req[r].lat, cache_coord_round_decimals)
    /\ Close(req[q].lon, req[r].lon, cache_coord_round_decimals)

\* C19, as stated: two requests whose latitudes and whose longitudes differ by less
\* than the rounding resolution round to the same (rlat, rlon) and have the same
\* cache key and the same lock key.
C19_Grouping ==
    \A q, r \in Reqs :
        Neighbours(q, r) =>
            /\ rounded_coords(req[q].lat, req[q].lon, cache_coord_round_decimals)
                  = rounded_coords(req[r].lat, req[r].lon, cache_coord_round_decimals)
            /\ KeyText(KeyOf(q)) = KeyText(KeyOf(r))
            /\ KeyText(LockKey(KeyOf(q))) = KeyText(LockKey(KeyOf(r)))

\* C19, amended: rounded_coords gives for each coordinate a multiple of the
\* resolution that is at most half a resolution away from it and has its sign.
\* Two requests whose coordinates differ by less than the resolution round, in
\* each coordinate, to the same multiple or to two neighbouring multiples; they
\* have the same cache key and lock key exactly when both coordinates round to
\* the same float, the sign of a zero included.
C19_GroupingWithinACell ==
    /\ WasCall("rounded_coords") =>
          \A i \in {1, 2} :
            LET x == IF i = 1 THEN returned.lat ELSE returned.lon
                m == Pow10(InputDecimals - returned.decimals)
            IN  /\ 2 * Abs(returned.got[i].mag * m - x.mag) <= m
                /\ returned.got[i].neg = x.neg
    /\ \A q, r \in Reqs :
          Neighbours(q, r) =>
            LET a == rounded_coords(req[q].lat, req[q].lon, cache_coord_round_decimals)
                b == rounded_coords(req[r].lat, req[r].lon, cache_coord_round_decimals)
            IN  /\ \A i \in {1, 2} : Abs(Value(a[i]) - Value(b[i])) <= 1
                /\ KeyText(KeyOf(q)) = KeyText(KeyOf(r)) <=> a = b
                /\ KeyText(LockKey(KeyOf(q))) = KeyText(LockKey(KeyOf(r))) <=> a = b

\* two requests with different coordinates, closer than the resolution, have the
\* same key, and rounded_coords has been called on the coordinates of one of them
C19_Witness ==
    /\ WasCall("rounded_coords")
    /\ returned.decimals = cache_coord_round_decimals
    /\ ~returned.again
    /\ \E q \in Reqs :
          /\ q # returned.worker
          /\ Neighbours(q, returned.worker)
          /\ req[q].lat # req[returned.worker].lat
          /\ req[q].lon # req[returned.worker].lon
          /\ KeyText(KeyOf(q)) = KeyText(KeyOf(returned.worker))

\* C20: rounded_coords applied to its own result, with the same `decimals`, returns
\* that result, whatever `decimals` is; and a request made with the coordinates
\* that rounded_coords returned for another request has the key of that request.
C20_Idempotent ==
    (WasCall("rounded_coords") /\ returned.again) =>
        /\ returned.got = returned.prev
        /\ returned.decimals = cache_coord_round_decimals =>
              LET r == returned.worker IN
              /\ returned.prev = rounded_coords(req[r].lat, req[r].lon, returned.decimals)
              /\ KeyText(FloatKey(req[r].kind, req[r].units, returned.lat, returned.lon))
                    = KeyText(KeyOf(r))

\* rounded_coords was applied to its own result -0.0 for a latitude of -0.004, and
\* to a longitude that it had rounded to another number
C20_Witness ==
    /\ WasCall("rounded_coords")
    /\ returned.again
    /\ returned.decimals = cache_coord_round_decimals
    /\ returned.lat = [neg |-> TRUE, mag |-> 0]
    /\ req[returned.worker].lat = -4
    /\ Widen(returned.got[2], returned.decimals) # Float(req[returned.worker].lon)

\* the four terminal states of a request
Terminal(response) ==
    \/ response.origin = "cached" /\ response.status = 200
    \/ response.origin = "busy" /\ response.status = 503
    \/ response.origin = "fresh" /\ response.status = 200
    \/ response.origin = "upstream_error" /\ response.status = 502

\* the request ended by the exception of a Redis command (client.get in get_json,
\* client.set in acquire_lock), which nothing catches
StoreRaised ==
    /\ returned.response = Unclassified
    /\ ~(returned.cached.hit /\ returned.cached.value # None)

\* C21, as stated: every request that enters _fetch_current or _fetch_forecast
\* leaves it, making each of its five calls at most once, and unless a Redis
\* command raised it leaves it in one of RETURN_CACHED, RETURN_BUSY, RETURN_FRESH
\* and RETURN_UPSTREAM_ERROR.
C21_Termination ==
    /\ \A r \in Reqs : InFetch(r) ~> ~InFetch(r)
    /\ [](\A r \in Reqs : \A f \in DOMAIN NoCalls : calls[r][f] <= 1)
    /\ []((FetchReturned /\ ~StoreRaised) => Terminal(returned.response))

\* C22: a request calls release_lock only after its own acquire_lock returned true,
\* and calls set_json only between that acquire and its own release; a lock entry
\* leaves the store only by its expiry or by the release_lock of a request whose
\* acquire_lock on that key returned true; the step in which a request gets 503
\* leaves the store as it is.
C22_OnlyAcquirersReleaseAndWrite ==
    /\ [](FetchReturned =>
            /\ returned.calls.release > 0 =>
                  returned.have_lock = "True" /\ returned.calls.acquire = 1
            /\ returned.calls.set > 0 =>
                  returned.have_lock = "True" /\ returned.calls.acquire = 1)
    /\ [][\A r \in Reqs :
            calls'[r].set > calls[r].set =>
                /\ have_lock[r] = "True"
                /\ calls[r].acquire = 1
                /\ calls[r].release = 0]_vars
    /\ [][\A lk \in LockKeys :
            (store[lk] # Absent /\ store'[lk] = Absent) =>
                \/ pc' = pc
                \/ \E r \in Reqs :
                      /\ pc[r] = "release_lock" /\ pc'[r] = "idle"
                      /\ have_lock[r] = "True"
                      /\ LockKey(KeyOf(r)) = lk]_vars
    /\ [][\A r \in Reqs :
            (returned'.worker = r /\ returned'.entered /\ returned'.have_lock = "False")
                => store' = store]_vars

\* a request got 503 and the lock entry of the request that holds the lock is
\* still in the store
C22_Witness ==
    /\ FetchReturned
    /\ returned.have_lock = "False"
    /\ returned.response.status = 503
    /\ \E q \in Reqs :
          /\ Holding(q)
          /\ KeyOf(q) = returned.key
          /\ OwnEntry(q, LockKey(returned.key))

\* the last step was the return of a request that held the lock, fetched from the
\* upstream provider with success and has called release_lock
Refreshed ==
    /\ FetchReturned
    /\ returned.have_lock = "True"
    /\ returned.fetched = "ok"
    /\ returned.calls.release = 1

\* C23, as stated: while no TTL elapses, when a lock holder has released after a
\* successful fetch and the lock is free, the record of its key is in the store;
\* and the request for that key that performs its cache get next terminates in
\* RETURN_CACHED, in that very step, without a call of the upstream provider.
C23_RetryServedFromCache ==
    /\ []((Refreshed /\ store[LockKey(returned.key)] = Absent) =>
            store[returned.key] # Absent)
    /\ [][\A r \in Reqs :
            (Refreshed /\ pc[r] = "check_cache" /\ pc'[r] # "check_cache"
               /\ KeyOf(r) = returned.key)
            => /\ returned'.worker = r
               /\ returned'.response.origin = "cached"
               /\ returned'.response.status = 200
               /\ returned'.calls.upstream = 0]_vars

\* C24, as stated: whichever of the two modules serves a request, a cache hit on
\* a payload the response can be built from ends as the cached 200 after the
\* cache get alone, an acquire_lock that returned false as Busy (503) after the
\* cache get and the acquire, a failed upstream call as UpstreamError (502) and a
\* successful one whose record was stored and whose response was built as the
\* fresh 200, both after the cache get, the acquire, the upstream call and the
\* release, the set_json between them only on success.
C24_EntryModulesAgree ==
    FetchReturned =>
        /\ (returned.cached.hit /\ returned.cached.value # None
              /\ returned.response # Unclassified) =>
              /\ returned.response.origin = "cached" /\ returned.response.status = 200
              /\ returned.calls = [NoCalls EXCEPT !.get = 1]
        /\ returned.have_lock = "False" =>
              /\ returned.response.origin = "busy" /\ returned.response.status = 503
              /\ returned.calls = [NoCalls EXCEPT !.get = 1, !.acquire = 1]
        /\ UpstreamFailed(returned.fetched) =>
              /\ returned.response.origin = "upstream_error"
              /\ returned.response.status = 502
              /\ returned.calls =
                    [get |-> 1, acquire |-> 1, upstream |-> 1, set |-> 0, release |-> 1]
        /\ (returned.fetched = "ok" /\ returned.response.status = 200) =>
              /\ returned.response.origin = "fresh"
              /\ returned.calls =
                    [get |-> 1, acquire |-> 1, upstream |-> 1, set |-> 1, release |-> 1]

====
